---- MODULE Spec2Model ----
(***************************************************************************)
(* A model of the YQ HTTP client (package yq): the retrying request loop   *)
(* doRequest, the remote operations built on it, the polling operations    *)
(* WaitQueryToComplete / WaitQueryToSucceed, the paging operation          *)
(* GetQueryResultSet, and the memoizing result decoder Results.            *)
(* Durations are in milliseconds.                                          *)
(***************************************************************************)
EXTENDS Integers, Sequences, FiniteSets, TLC

\* ------------------------------------------------------------------------
\* Program constants
\* ------------------------------------------------------------------------
MaxRetryForSession == 4
TimeBetweenRetries == 1000

\* ------------------------------------------------------------------------
\* Bounds of the model
\* ------------------------------------------------------------------------
\* transport failures the network may inject during one public operation
MaxFaults == 5
\* status polls one WaitQueryToComplete may make
MaxPolls == 6
\* the reading at which the model's clock stops (above every timeout the
\* model waits with, so that every timeout test is exact)
MaxClock == 3000
\* the pages GetQueryResultSet may ask for
MaxPages == 3
\* the goroutines that share a Results instance, and the calls they make
NumCallers == 2
MaxCalls == 3

\* ------------------------------------------------------------------------
\* Values: errors, JSON values, documents, responses
\* ------------------------------------------------------------------------
\* A JSON object (map[string]interface{}): a function on the keys it has.
EmptyDoc == [k \in {} |-> 0]

\* A decoded JSON value (interface{}): t is its dynamic type, and s, n, a
\* or o its value as a string, a number, an array or an object. "absent"
\* is what indexing a map with a key it lacks gives (nil, as null does).
JAbsent == [t |-> "absent", s |-> "", n |-> 0, a |-> <<>>, o |-> EmptyDoc]
JNull == [JAbsent EXCEPT !.t = "null"]
JStr(s) == [JAbsent EXCEPT !.t = "string", !.s = s]
JNum(n) == [JAbsent EXCEPT !.t = "number", !.n = n]
JArr(a) == [JAbsent EXCEPT !.t = "array", !.a = a]
JObj(o) == [JAbsent EXCEPT !.t = "object", !.o = o]
\* Go values a conversion produces: a [][]interface{} (its elements are
\* the rows, each a JArr) and a time.Time (s is the instant)
JTable(a) == [JAbsent EXCEPT !.t = "table", !.a = a]
JTime(s) == [JAbsent EXCEPT !.t = "time", !.s = s]
\* the text fmt.Sprintf("%v", v) gives for v
JText(v) == [JAbsent EXCEPT !.t = "text", !.a = <<v>>]
IsNil(v) == v.t \in {"absent", "null"}

\* A Go error value. kind "nil" is the nil error; issues is the value an
\* error message embeds.
Err(kind, n, status, msg, issues) ==
  [kind |-> kind, n |-> n, status |-> status, msg |-> msg, issues |-> issues]
NilErr == Err("nil", 0, "", "", JAbsent)
\* the error client.Do returns for the n-th attempt of a call
TransportErr(n) == Err("transport", n, "", "", JAbsent)
\* ctx.Err() of a cancelled context
CtxErr == Err("ctx", 0, "", "", JAbsent)
\* the error json Decode returns
DecodeErr == Err("decode", 0, "", "", JAbsent)

\* fmt.Sprintf("%v", v) of a map entry: a missing key and null print <nil>
Sprint(v) ==
  CASE v.t = "string" -> v.s
    [] v.t \in {"absent", "null"} -> "<nil>"
    [] OTHER -> v.t

\* indexing a map
Field(doc, key) == IF key \in DOMAIN doc THEN doc[key] ELSE JAbsent

\* An *http.Response: code 0 stands for the nil response; body is
\* "object" (a JSON object, decoded in doc), "null" (the JSON null), or
\* "garbage" (anything json Decode refuses for a map or struct).
Resp(code, body, doc) == [code |-> code, body |-> body, doc |-> doc]
\* json Decode into a map or a struct returns no error: an object is
\* stored, null leaves the target as it is (a nil map, zero fields)
Decodes(body) == body \in {"object", "null"}
NilResp == Resp(0, "garbage", EmptyDoc)

\* the error body of the service
ErrorDoc ==
  [status |-> JStr("BAD_REQUEST"), message |-> JStr("x"), details |-> JNull]

\* What an operation hands back: a panic (nil dereference), or its
\* return values (the error and whichever value it returns).
Ret(panic, err, str, doc, n) ==
  [panic |-> panic, err |-> err, str |-> str, doc |-> doc, n |-> n]
NoRet == Ret(FALSE, NilErr, "", EmptyDoc, 0)
RetErr(e) == Ret(FALSE, e, "", EmptyDoc, 0)
RetPanic == Ret(TRUE, NilErr, "", EmptyDoc, 0)

\* ------------------------------------------------------------------------
\* Strings that travel as query parameters are sequences of characters
\* ------------------------------------------------------------------------
Digit == <<"0", "1", "2", "3", "4", "5", "6", "7", "8", "9">>

RECURSIVE ItoaNat(_)
ItoaNat(n) ==
  IF n < 10 THEN <<Digit[n + 1]>>
  ELSE ItoaNat(n \div 10) \o <<Digit[(n % 10) + 1]>>

\* strconv.Itoa
Itoa(n) == IF n < 0 THEN <<"-">> \o ItoaNat(-n) ELSE ItoaNat(n)

\* a map[string]string: a function on the keys that were set
EmptyParams == [k \in {} |-> <<>>]
SetParam(m, k, v) ==
  [x \in (DOMAIN m) \cup {k} |-> IF x = k THEN v ELSE m[x]]

\* ------------------------------------------------------------------------
\* Configuration
\* ------------------------------------------------------------------------
ClientConfig(token, project, userAgent, endpoint, webBaseURL, tokenPrefix) ==
  [Token |-> token, Project |-> project, UserAgent |-> userAgent,
   Endpoint |-> endpoint, WebBaseURL |-> webBaseURL,
   TokenPrefix |-> tokenPrefix]

\* NewClient: the defaults for the empty fields
NewClient(config) ==
  [config EXCEPT
     !.UserAgent = IF @ = "" THEN "Go YQ HTTP SDK" ELSE @,
     !.Endpoint = IF @ = "" THEN "https://api.yandex-query.cloud.yandex.net"
                  ELSE @,
     !.WebBaseURL = IF @ = "" THEN "https://yq.cloud.yandex.ru" ELSE @,
     !.TokenPrefix = IF @ = "" THEN "Bearer " ELSE @]

\* the configurations the model is run with (Project is a query parameter
\* value, so a sequence of characters; the empty one is "not configured")
ConfigInputs ==
  {ClientConfig("tok", project, "", "", "", "") : project \in {<<>>, <<"p">>}}

\* ------------------------------------------------------------------------
\* State
\* ------------------------------------------------------------------------
VARIABLES
  cfg,      \* Client.config, set by NewClient
  ctxDone,  \* the caller's context is cancelled (ctx.Done() is closed)
  now,      \* the wall clock
  faults,   \* transport failures injected so far
  phase,    \* "idle", "running", "returned": the caller's position
  op,       \* the public operation the caller invoked, with its arguments
  ret,      \* what that operation returned
  dr,       \* the frame of doRequest
  api,      \* the frame of the remote operation that called doRequest
  wq,       \* the frame of WaitQueryToComplete
  ws,       \* the frame of WaitQueryToSucceed
  rs,       \* the frame of GetQueryResultSet
  ar,       \* the frame of GetQueryAllResultSets
  calls,    \* the frames of concurrent calls of GetQueryResultSet
  wire,     \* the requests the transport put on the wire
  be,       \* the remote service
  obj,      \* a Results instance shared by its callers
  callers   \* the frames of the goroutines that call its methods

clientVars == <<cfg, ctxDone, now, faults, phase, op, ret, dr, api, wq, ws,
                rs, ar, calls, wire, be>>

vars == <<clientVars, obj, callers>>

\* ------------------------------------------------------------------------
\* Building a request
\* ------------------------------------------------------------------------
\* Client.buildParams
buildParams ==
  IF cfg.Project # <<>> THEN SetParam(EmptyParams, "project", cfg.Project)
  ELSE EmptyParams

\* the params map GetQueryResultSetPage fills in
PageParams(offset, limit) ==
  LET p0 == buildParams
      p1 == IF offset > 0 THEN SetParam(p0, "offset", Itoa(offset)) ELSE p0
  IN IF limit > 0 THEN SetParam(p1, "limit", Itoa(limit)) ELSE p1

\* Client.composeAPIURL: Endpoint + path. The path is a route and the
\* result set index formatted into it; the URL has no query string.
composeAPIURL(route, index) ==
  [base |-> cfg.Endpoint, route |-> route, index |-> index,
   query |-> EmptyParams]

\* the URL each remote operation requests, and its method
ApiURL(name, index) ==
  CASE name = "CreateQuery" -> composeAPIURL("queries", 0)
    [] name = "GetQueryStatus" -> composeAPIURL("status", 0)
    [] name = "GetQuery" -> composeAPIURL("query", 0)
    [] name = "StopQuery" -> composeAPIURL("stop", 0)
    [] name = "GetQueryResultSetPage" -> composeAPIURL("results", index)
    [] name = "GetOpenAPISpec" -> composeAPIURL("openapi", 0)

ApiMethod(name) ==
  IF name \in {"CreateQuery", "StopQuery"} THEN "POST" ELSE "GET"

\* StopQuery validated against http.StatusOK like the other operations
ExpectedCodeAlwaysOK(name) == IF name = "StopQuery" THEN 200 ELSE 200

\* the status each remote operation accepts
ExpectedCode(name) == IF name = "StopQuery" THEN 204 ELSE 200

\* CreateQuery's body map: only the non-empty fields, marshalled in key
\* order between the braces
CreateBody(queryText, queryType, name, description) ==
  LET field(k, v) == IF v # "" THEN <<<<k, v>>>> ELSE <<>>
  IN <<<<"{", "">>>> \o field("description", description)
       \o field("name", name) \o field("text", queryText)
       \o field("type", queryType) \o <<<<"}", "">>>>

\* ------------------------------------------------------------------------
\* The remote service and the transport (the environment of the client)
\* ------------------------------------------------------------------------
Statuses == {"RUNNING", "PENDING", "COMPLETED", "FAILED"}

Min(a, b) == IF a < b THEN a ELSE b

RECURSIVE AtoiAcc(_, _)
AtoiAcc(str, acc) ==
  IF str = <<>> THEN acc
  ELSE AtoiAcc(Tail(str),
               10 * acc + (CHOOSE d \in 0..9 : Digit[d + 1] = Head(str)))

\* the service's reading of a decimal query parameter
Atoi(str) == AtoiAcc(str, 0)

\* row i of the result set: one cell holding i
Row(i) == JArr(<<JNum(i)>>)

\* the column descriptors of the result set: one Int64 column
Columns == JArr(<<JObj([name |-> JStr("c"), type |-> JStr("Int64")])>>)

\* the column descriptors of the result set of an index: the column's name
\* tells the result sets apart
ColumnsOf(index) ==
  IF index = 0 THEN Columns
  ELSE JArr(<<JObj([name |-> JStr(IF index = 1 THEN "c1" ELSE "c2"),
                    type |-> JStr("Int64")])>>)

\* the rows the service selects: those of the offset and limit it
\* receives, and its default first window when it receives none
Window(query) ==
  LET off == IF "offset" \in DOMAIN query THEN Atoi(query["offset"]) ELSE 0
      lim == IF "limit" \in DOMAIN query THEN Atoi(query["limit"])
             ELSE be.defWindow
      last == Min(off + lim, be.N)
  IN [i \in 1..(IF last > off THEN last - off ELSE 0) |-> Row(off + i)]

\* the query documents the service may report: issues and result_sets
\* as arrays, as values of another type, or missing
QueryDocs ==
  {[issues |-> JArr(<<JStr("boom")>>),
    result_sets |-> JArr(<<JObj(EmptyDoc), JObj(EmptyDoc)>>)],
   [issues |-> JObj([message |-> JStr("boom")]), result_sets |-> JArr(<<>>)],
   [result_sets |-> JStr("none")],
   EmptyDoc}

\* the responses with a status the operation does not accept
Refusals(name) ==
  {Resp(400, "object", ErrorDoc), Resp(400, "garbage", EmptyDoc),
   Resp(400, "null", EmptyDoc),
   Resp(IF name = "StopQuery" THEN 200 ELSE 204, "garbage", EmptyDoc)}

\* the responses the service may give to a request of a remote operation
Responses(name, req) ==
  Refusals(name) \cup
  CASE name = "CreateQuery" ->
         {Resp(200, "object", [id |-> JStr("q")]),
          Resp(200, "object", [id |-> JNum(7)]),
          Resp(200, "garbage", EmptyDoc)}
    [] name = "GetQueryStatus" ->
         {Resp(200, "object", [status |-> JStr(s)]) :
            s \in Statuses}
         \cup {Resp(200, "object", EmptyDoc), Resp(200, "garbage", EmptyDoc)}
    [] name = "GetQuery" ->
         {Resp(200, "object", d) : d \in QueryDocs}
         \cup {Resp(200, "garbage", EmptyDoc)}
    [] name = "StopQuery" -> {Resp(204, "garbage", EmptyDoc)}
    [] name = "GetQueryResultSetPage" ->
         {Resp(200, "object",
               [columns |-> ColumnsOf(req.url.index),
                rows |-> JArr(Window(req.url.query))]),
          Resp(200, "object", [columns |-> ColumnsOf(req.url.index)]),
          Resp(200, "garbage", EmptyDoc)}
    [] name = "GetOpenAPISpec" -> {Resp(200, "garbage", EmptyDoc)}

\* the status a status answer carries, as the client will decode it
\* ("none": the answer carries none)
StatusOf(resp) ==
  IF resp.code = 200 /\ Decodes(resp.body)
  THEN CASE Field(resp.doc, "status").t = "string" -> Field(resp.doc, "status").s
         [] Field(resp.doc, "status").t \in {"absent", "null"} -> ""
         [] OTHER -> "none"
  ELSE "none"

\* the service after it answered: it counts the statuses and pages it
\* served and remembers the first status outside RUNNING, PENDING
Served(name, resp) ==
  IF name = "GetQueryStatus" /\ StatusOf(resp) # "none"
  THEN [be EXCEPT
          !.statuses = @ + 1,
          !.running = IF StatusOf(resp) = "RUNNING" THEN @ + 1 ELSE @,
          !.firstTerminal =
             IF @ = 0 /\ StatusOf(resp) \notin {"RUNNING", "PENDING"}
             THEN be.statuses + 1 ELSE @,
          !.terminal =
             IF be.firstTerminal = 0
                  /\ StatusOf(resp) \notin {"RUNNING", "PENDING"}
             THEN StatusOf(resp) ELSE @]
  ELSE IF name = "GetQueryResultSetPage" /\ resp.code = 200
            /\ Field(resp.doc, "rows").t = "array"
  THEN [be EXCEPT !.pages = @ + 1]
  ELSE be

\* ------------------------------------------------------------------------
\* doRequest
\* ------------------------------------------------------------------------
\* the frame of a call of doRequest: its parameters (req, body), its
\* variables (i, resp and err of the function scope, ierr the err the loop
\* body declares), its position, its return values, and what it did so
\* far: the attempts it made, the responses it got, the backoff waits it
\* completed, the last result of client.Do, the bodies it sent
DrIdle ==
  [pc |-> "idle",
   req |-> [method |-> "",
            url |-> [base |-> "", route |-> "", index |-> 0,
                     query |-> EmptyParams]],
   body |-> <<>>, i |-> 0, resp |-> NilResp, err |-> NilErr, ierr |-> NilErr,
   retResp |-> NilResp, retErr |-> NilErr,
   attempts |-> 0, responses |-> 0, waits |-> <<>>, lastDoErr |-> NilErr,
   sent |-> <<>>]

DrCall(method, url, body) ==
  [DrIdle EXCEPT !.pc = "attempt",
                 !.req = [method |-> method, url |-> url], !.body = body]

\* the loop condition
LoopCondition(i) == i <= MaxRetryForSession

\* the backoff after the attempt of loop index i
RetryDelay(i) == TimeBetweenRetries * (i + 1)

\* the test inverted: the call ends on a failed attempt and goes on after a
\* response
AttemptEndsOnError(err) == err # NilErr

\* an attempt ends the call when client.Do gave no error
AttemptEnds(err) == err = NilErr

\* what doRequest returns when the loop runs out: nil and the err of the
\* function scope. The loop body declares its own err (req, err := ...),
\* and client.Do's error is assigned to that one, so the function's err
\* is still the nil it was declared with.
ExhaustedReturn(frame) == [resp |-> NilResp, err |-> frame.err]

\* how much of the body a failed client.Do may have read: nothing, the
\* first piece, all of it
ReadChoices(body) == {0, Len(body)} \cup (IF Len(body) > 1 THEN {1} ELSE {})

\* the error client.Do returns when the context is already cancelled
DoCtxErr == Err("do-cancelled", 0, "", "", JAbsent)

\* What client.Do may give for the request of this attempt: with the
\* context cancelled an error, without sending; else a transport error
\* (having read any part of the body) or a response of the service.
DoOutcomes ==
  IF ctxDone
  THEN {[resp |-> NilResp, err |-> DoCtxErr, read |-> 0, sent |-> FALSE]}
  ELSE {[resp |-> NilResp, err |-> TransportErr(dr.attempts + 1),
         read |-> r, sent |-> TRUE] :
          r \in IF faults < MaxFaults THEN ReadChoices(dr.body) ELSE {}}
       \cup {[resp |-> r, err |-> NilErr, read |-> Len(dr.body),
              sent |-> TRUE] : r \in Responses(api.name, dr.req)}

\* One loop iteration up to the select: http.NewRequestWithContext takes
\* what is left in the body buffer, client.Do sends it and its results are
\* assigned to resp (of the function) and err (of the loop body); without
\* an error the response is returned.
doRequestAttempt ==
  /\ phase = "running"
  /\ dr.pc = "attempt"
  /\ LoopCondition(dr.i)
  /\ \E out \in DoOutcomes :
       /\ dr' = LET f == [dr EXCEPT
                            !.resp = out.resp, !.ierr = out.err,
                            !.attempts = @ + 1, !.lastDoErr = out.err,
                            !.responses = IF out.resp # NilResp THEN @ + 1
                                          ELSE @,
                            !.sent = IF out.sent THEN Append(@, dr.body)
                                     ELSE @,
                            !.body = SubSeq(@, out.read + 1, Len(@))]
                IN IF AttemptEnds(out.err)
                   THEN [f EXCEPT !.pc = "ret", !.retResp = f.resp,
                                  !.retErr = NilErr]
                   ELSE [f EXCEPT !.pc = "select"]
       /\ faults' = IF out.sent /\ out.err # NilErr THEN faults + 1
                    ELSE faults
       /\ wire' = IF out.sent THEN [n |-> wire.n + 1, last |-> dr.req]
                  ELSE wire
       /\ be' = IF out.resp # NilResp THEN Served(api.name, out.resp) ELSE be
  /\ UNCHANGED <<cfg, ctxDone, now, phase, op, ret, api, wq, ws, rs, ar,
                 calls, obj, callers>>

\* the clock after a wait of d
After(t, d) == IF t + d > MaxClock THEN MaxClock ELSE t + d

\* a wait that sleeps instead of selecting: the timer always fires
TimerCaseAlways(done) == TRUE

\* a select on ctx.Done() and a timer: the timer's case runs only if the
\* context is not done before the timer fires
TimerCase(done) == ~done

\* the select after a failed attempt, when the timer fires: the wait is
\* over, i++ and the loop condition is tested; when it fails the function
\* returns
doRequestBackoff ==
  /\ phase = "running"
  /\ dr.pc = "select"
  /\ TimerCase(ctxDone)
  /\ now' = After(now, RetryDelay(dr.i))
  /\ dr' = LET f == [dr EXCEPT !.i = @ + 1,
                               !.waits = Append(@, RetryDelay(dr.i))]
           IN IF LoopCondition(f.i) THEN [f EXCEPT !.pc = "attempt"]
              ELSE [f EXCEPT !.pc = "ret",
                             !.retResp = ExhaustedReturn(f).resp,
                             !.retErr = ExhaustedReturn(f).err]
  /\ UNCHANGED <<cfg, ctxDone, faults, phase, op, ret, api, wq, ws, rs,
                 wire, be, ar, calls, obj, callers>>

\* the select after a failed attempt, when the context is done
doRequestCancelled ==
  /\ phase = "running"
  /\ dr.pc = "select"
  /\ ctxDone
  /\ dr' = [dr EXCEPT !.pc = "ret", !.retResp = NilResp, !.retErr = CtxErr]
  /\ UNCHANGED <<cfg, ctxDone, now, faults, phase, op, ret, api, wq, ws, rs,
                 wire, be, ar, calls, obj, callers>>

\* ------------------------------------------------------------------------
\* The remote operations: CreateQuery, GetQueryStatus, GetQuery, StopQuery,
\* GetQueryResultSetPage, GetOpenAPISpec
\* ------------------------------------------------------------------------
RemoteOps == {"CreateQuery", "GetQueryStatus", "GetQuery", "StopQuery",
              "GetQueryResultSetPage", "GetOpenAPISpec"}

\* Client.validateHTTPError
validateHTTPError(resp, expectedCode) ==
  IF resp.code # expectedCode
  THEN IF Decodes(resp.body)
       THEN Err("yq", resp.code, Sprint(Field(resp.doc, "status")),
                Sprint(Field(resp.doc, "message")), JAbsent)
       ELSE Err("yq", resp.code, "", "", JAbsent)
  ELSE NilErr

\* json Decode into a struct with one string field: a string is stored,
\* a missing key or null leaves "", any other value is an error
DecodeStringField(resp, key) ==
  IF ~Decodes(resp.body) THEN RetErr(DecodeErr)
  ELSE CASE Field(resp.doc, key).t = "string" ->
              Ret(FALSE, NilErr, Field(resp.doc, key).s, EmptyDoc, 0)
         [] Field(resp.doc, key).t \in {"absent", "null"} -> NoRet
         [] OTHER -> RetErr(DecodeErr)

\* json Decode into a map[string]interface{}
DecodeDoc(resp) ==
  IF ~Decodes(resp.body) THEN RetErr(DecodeErr)
  ELSE Ret(FALSE, NilErr, "", resp.doc, 0)

\* what a remote operation does with an accepted response
DecodeResult(name, resp) ==
  CASE name = "CreateQuery" -> DecodeStringField(resp, "id")
    [] name = "GetQueryStatus" -> DecodeStringField(resp, "status")
    [] name \in {"GetQuery", "GetQueryResultSetPage"} -> DecodeDoc(resp)
    [] name = "StopQuery" -> NoRet
    [] name = "GetOpenAPISpec" -> Ret(FALSE, NilErr, "openapi", EmptyDoc, 0)

\* The part of a remote operation after doRequest returned: the error is
\* returned; else resp.Body is reached for (a nil resp panics), the status
\* is validated and the body decoded.
AfterDoRequest(name, resp, err) ==
  IF err # NilErr THEN RetErr(err)
  ELSE IF resp = NilResp THEN RetPanic
  ELSE IF validateHTTPError(resp, ExpectedCode(name)) # NilErr
       THEN RetErr(validateHTTPError(resp, ExpectedCode(name)))
  ELSE DecodeResult(name, resp)

ApiIdle == [pc |-> "idle", name |-> "", params |-> EmptyParams, res |-> NoRet]

\* the frame of a remote operation that has called doRequest
ApiCall(name, params) ==
  [pc |-> "call", name |-> name, params |-> params, res |-> NoRet]

\* the body a remote operation hands to doRequest
ApiBody(name, o) ==
  IF name = "CreateQuery"
  THEN CreateBody(o.queryText, o.queryType, o.qname, o.description)
  ELSE <<>>

\* a remote operation's return, once its doRequest returned
RemoteReturn ==
  /\ phase = "running"
  /\ api.pc = "call"
  /\ dr.pc = "ret"
  /\ api' = [api EXCEPT !.pc = "done",
                        !.res = AfterDoRequest(api.name, dr.retResp,
                                               dr.retErr)]
  /\ dr' = [dr EXCEPT !.pc = "idle"]
  /\ UNCHANGED <<cfg, ctxDone, now, faults, phase, op, ret, wq, ws, rs,
                 wire, be, ar, calls, obj, callers>>

\* ------------------------------------------------------------------------
\* Results (result.go): the conversion of a raw result document
\* ------------------------------------------------------------------------
\* the type names getConverter lists in its first case
IdentityTypes ==
  {"Int8", "Int16", "Int32", "Int64", "Uint8", "Uint16", "Uint32", "Uint64",
   "Bool", "Utf8", "Uuid", "Void", "Null", "EmptyList", "Struct<>", "Tuple<>"}

\* a switch whose default case decodes base64
getConverterDecodingUnknown(columnType) ==
  CASE columnType \in IdentityTypes -> "identity"
    [] columnType \in {"Float", "Double"} -> "convertFromFloat"
    [] columnType \in {"Date", "Datetime", "Timestamp"} -> "convertFromDatetime"
    [] OTHER -> "convertFromBase64"

\* Results.getConverter: the converter of a column type
getConverter(columnType) ==
  CASE columnType \in IdentityTypes -> "identity"
    [] columnType = "String" -> "convertFromBase64"
    [] columnType \in {"Float", "Double"} -> "convertFromFloat"
    [] columnType \in {"Date", "Datetime", "Timestamp"} -> "convertFromDatetime"
    [] OTHER -> "identity"

\* base64.StdEncoding.DecodeString, strconv.ParseFloat(v, 64) and
\* time.Parse(time.RFC3339, str) on the strings the model's cells hold:
\* ok is FALSE where the library returns an error
DecodeString(str) ==
  CASE str = "YQ==" -> [ok |-> TRUE, s |-> "a"]
    [] str = "" -> [ok |-> TRUE, s |-> ""]
    [] OTHER -> [ok |-> FALSE, s |-> ""]

ParseFloat(str) ==
  CASE str = "2" -> [ok |-> TRUE, n |-> 2]
    [] str = "2.0" -> [ok |-> TRUE, n |-> 2]
    [] OTHER -> [ok |-> FALSE, n |-> 0]

ParseRFC3339(str) ==
  CASE str = "2024-01-02T03:04:05Z" -> [ok |-> TRUE, s |-> str]
    [] OTHER -> [ok |-> FALSE, s |-> ""]

\* Results.convertFromBase64
convertFromBase64(value) ==
  IF value.t # "string" THEN value
  ELSE IF ~DecodeString(value.s).ok THEN value
  ELSE JStr(DecodeString(value.s).s)

\* Results.convertFromFloat
convertFromFloat(value) ==
  CASE value.t = "number" -> value
    [] value.t = "string" ->
         IF ~ParseFloat(value.s).ok THEN value
         ELSE JNum(ParseFloat(value.s).n)
    [] OTHER -> value

\* Results.convertFromDatetime
convertFromDatetime(value) ==
  IF value.t # "string" THEN value
  ELSE IF ~ParseRFC3339(value.s).ok THEN value
  ELSE JTime(ParseRFC3339(value.s).s)

\* the call converters[j](value)
ApplyConverter(converter, value) ==
  CASE converter = "convertFromBase64" -> convertFromBase64(value)
    [] converter = "convertFromFloat" -> convertFromFloat(value)
    [] converter = "convertFromDatetime" -> convertFromDatetime(value)
    [] OTHER -> value

\* The body of Results.convert after its test of the cache: the document
\* it would store, or a panic. The type assertions panic on columns or
\* rows that are not arrays, on a column that is not an object with a
\* string type, on a row that is not an array; convertedRow[j] panics on a
\* row with more cells than there are columns; the cells a shorter row
\* lacks stay nil.
ConvertDoc(rawResults) ==
  LET columns == Field(rawResults, "columns")
      rows == Field(rawResults, "rows")
      colOk(col) == col.t = "object" /\ Field(col.o, "type").t = "string"
      rowOk(row) == row.t = "array" /\ Len(row.a) <= Len(columns.a)
      converters == [i \in 1..Len(columns.a) |->
                       getConverter(Field(columns.a[i].o, "type").s)]
      convertedRow(row) ==
        JArr([j \in 1..Len(converters) |->
                IF j <= Len(row.a) THEN ApplyConverter(converters[j], row.a[j])
                ELSE JNull])
  IN IF \/ columns.t # "array" \/ rows.t # "array"
        \/ \E i \in 1..Len(columns.a) : ~colOk(columns.a[i])
        \/ \E i \in 1..Len(rows.a) : ~rowOk(rows.a[i])
     THEN [panic |-> TRUE, doc |-> EmptyDoc]
     ELSE [panic |-> FALSE,
           doc |-> [rows |-> JTable([i \in 1..Len(rows.a) |->
                                       convertedRow(rows.a[i])]),
                    columns |-> columns]]

\* ------------------------------------------------------------------------
\* Results (result.go): the instance and the goroutines that call it
\* ------------------------------------------------------------------------
Callers == 1..NumCallers

\* a map value of the field results: id tells the maps apart that
\* conversions allocate (0: the nil map), doc is its content
ResultsNil == [id |-> 0, doc |-> EmptyDoc]

\* NewYQResults: the instance with its two fields, and what happened to it
\* so far: the maps conversions allocated, the writes of the field
\* results, the calls of its methods
NewYQResults(results) ==
  [rawResults |-> results, results |-> ResultsNil,
   allocs |-> 0, writes |-> 0, calls |-> 0]

\* what a method hands back: a panic or its value, and for the accessors
\* of the converted document the map (src) the value was taken from
Access(panic, src, val) == [panic |-> panic, src |-> src, val |-> val]
NoAccess == Access(FALSE, 0, JAbsent)

\* the frame of a goroutine: the method it runs and its position in it
\* (in convert: "check", "convert", "store"; then "read", the method's own
\* statement), the map it allocated, its return value, and whether it has
\* read or written a non-nil results before
CallerIdle ==
  [pc |-> "idle", method |-> "", local |-> ResultsNil, ret |-> NoAccess,
   sawCache |-> FALSE]

Accessors == {"Results", "ToTable", "String"}

\* the raw documents the model converts: cells that convert and cells
\* that do not, a row shorter and a row longer than the columns
RawInputs ==
  LET col(type) == JObj([name |-> JStr("c"), type |-> JStr(type)])
  IN {[columns |-> JArr(<<col("String"), col("Double")>>),
       rows |-> JArr(<<JArr(<<JStr("YQ=="), JStr("2.0")>>),
                       JArr(<<JStr("!"), JNum(2)>>)>>)],
      [columns |-> JArr(<<col("Datetime")>>),
       rows |-> JArr(<<JArr(<<JStr("2024-01-02T03:04:05Z")>>), JArr(<<>>)>>)],
      [columns |-> JArr(<<col("Int64")>>),
       rows |-> JArr(<<JArr(<<JNum(1)>>), JArr(<<JNum(2), JNum(3)>>)>>)]}

\* the column types of the cases of getConverter, and two type names it
\* has no case for
ColumnTypes ==
  IdentityTypes \cup {"String", "Float", "Double", "Date", "Datetime",
                      "Timestamp", "Decimal(22,9)", "Optional<String>"}

\* raw cells as the JSON decoder delivers them: strings that decode or
\* parse under one of the converters or under none, a number, null, a list
RawCells ==
  {JStr(str) : str \in {"YQ==", "", "2", "2.0", "2024-01-02T03:04:05Z", "!"}}
  \cup {JNum(2), JNull, JArr(<<JStr("YQ==")>>)}

\* the raw document of one column of a type and one row of one cell
CellDoc(type, cell) ==
  [columns |-> JArr(<<JObj([name |-> JStr("c"), type |-> JStr(type)])>>),
   rows |-> JArr(<<JArr(<<cell>>)>>)]

\* a goroutine calls Results, ToTable or String, which call convert
CallAccessor(c) ==
  /\ callers[c].pc \in {"idle", "done"}
  /\ obj.calls < MaxCalls
  /\ \E m \in Accessors :
       callers' = [callers EXCEPT ![c].pc = "check", ![c].method = m,
                                  ![c].local = ResultsNil,
                                  ![c].ret = NoAccess]
  /\ obj' = [obj EXCEPT !.calls = @ + 1]
  /\ UNCHANGED clientVars

\* Results.RawResults
CallRawResults(c) ==
  /\ callers[c].pc \in {"idle", "done"}
  /\ obj.calls < MaxCalls
  /\ callers' = [callers EXCEPT
                   ![c].pc = "done", ![c].method = "RawResults",
                   ![c].local = ResultsNil,
                   ![c].ret = Access(FALSE, 0, JObj(obj.rawResults))]
  /\ obj' = [obj EXCEPT !.calls = @ + 1]
  /\ UNCHANGED clientVars

\* what the unsynchronised read of results in convert's test may give: the
\* field's value, or still nil for a goroutine that never saw another's
\* write
CacheReads(c) ==
  {obj.results} \cup (IF obj.results.id # 0 /\ ~callers[c].sawCache
                      THEN {ResultsNil} ELSE {})

\* a test that never finds the cache populated
CacheMissAlways(seen) == TRUE

\* whether convert's test lets the conversion run
CacheMiss(seen) == seen.id = 0

\* convert: if r.results != nil { return }
CheckCache(c) ==
  /\ callers[c].pc = "check"
  /\ \E seen \in CacheReads(c) :
       callers' = [callers EXCEPT
                     ![c].pc = IF CacheMiss(seen) THEN "convert" ELSE "read",
                     ![c].sawCache = @ \/ ~CacheMiss(seen)]
  /\ UNCHANGED <<clientVars, obj>>

\* convert: the conversion of rawResults into a new map
ConvertStep(c) ==
  /\ callers[c].pc = "convert"
  /\ IF ConvertDoc(obj.rawResults).panic
     THEN /\ callers' = [callers EXCEPT ![c].pc = "done",
                                        ![c].ret = Access(TRUE, 0, JAbsent)]
          /\ obj' = obj
     ELSE /\ callers' = [callers EXCEPT
                           ![c].pc = "store",
                           ![c].local = [id |-> obj.allocs + 1,
                                         doc |-> ConvertDoc(obj.rawResults).doc]]
          /\ obj' = [obj EXCEPT !.allocs = @ + 1]
  /\ UNCHANGED clientVars

\* convert: r.results = the new map
StoreCache(c) ==
  /\ callers[c].pc = "store"
  /\ obj' = [obj EXCEPT !.results = callers[c].local, !.writes = @ + 1]
  /\ callers' = [callers EXCEPT ![c].pc = "read", ![c].sawCache = TRUE]
  /\ UNCHANGED clientVars

\* the statement after convert() in Results, ToTable and String
AccessorValue(method, results) ==
  CASE method = "Results" -> Access(FALSE, results.id, JObj(results.doc))
    [] method = "ToTable" ->
         IF Field(results.doc, "rows").t = "table"
         THEN Access(FALSE, results.id, Field(results.doc, "rows"))
         ELSE Access(TRUE, 0, JAbsent)
    [] method = "String" ->
         Access(FALSE, results.id, JText(JObj(results.doc)))

ReturnAccessor(c) ==
  /\ callers[c].pc = "read"
  /\ callers' = [callers EXCEPT
                   ![c].pc = "done",
                   ![c].ret = AccessorValue(callers[c].method, obj.results)]
  /\ UNCHANGED <<clientVars, obj>>

\* ------------------------------------------------------------------------
\* The caller
\* ------------------------------------------------------------------------
\* the arguments of a public operation
Args(name) ==
  [name |-> name, offset |-> 0, limit |-> 0, index |-> 0,
   executionTimeout |-> 0, stopOnTimeout |-> FALSE, rawFormat |-> TRUE,
   queryText |-> "", queryType |-> "", qname |-> "", description |-> ""]

\* the arguments the model calls the remote operations with
RemoteArgs ==
  {Args(name) : name \in RemoteOps \ {"CreateQuery", "GetQueryResultSetPage"}}
  \cup {[Args("CreateQuery") EXCEPT !.queryText = t, !.qname = n] :
          t \in {"", "SELECT 1"}, n \in {"", "n"}}
  \cup {[Args("GetQueryResultSetPage") EXCEPT !.offset = o, !.limit = l] :
          o \in {-1, 0, 1000}, l \in {-1, 0, 1000}}

\* the result sets the service may hold: their number of rows, and the
\* size of the window the service selects when it is given no limit
ResultSizes == {0, 400, 1000, 2400}
DefaultWindows == {100, 1000}

\* the caller invokes a remote operation
CallRemote ==
  /\ phase = "idle"
  /\ \E o \in RemoteArgs, n \in ResultSizes, w \in DefaultWindows :
       /\ o.name # "GetQueryResultSetPage" => n = 0 /\ w = 100
       /\ op' = o
       /\ be' = [be EXCEPT !.N = n, !.defWindow = w]
       /\ api' = ApiCall(o.name,
                         IF o.name = "GetQueryResultSetPage"
                         THEN PageParams(o.offset, o.limit) ELSE EmptyParams)
       /\ dr' = DrCall(ApiMethod(o.name), ApiURL(o.name, o.index),
                       ApiBody(o.name, o))
  /\ phase' = "running"
  /\ UNCHANGED <<cfg, ctxDone, now, faults, ret, wq, ws, rs, wire, ar,
                 calls, obj, callers>>

\* the remote operation returns to the caller
ReturnRemote ==
  /\ phase = "running"
  /\ op.name \in RemoteOps
  /\ api.pc = "done"
  /\ ret' = api.res
  /\ phase' = "returned"
  /\ api' = [api EXCEPT !.pc = "idle"]
  /\ UNCHANGED <<cfg, ctxDone, now, faults, op, dr, wq, ws, rs, wire, be,
                 ar, calls, obj, callers>>

\* ------------------------------------------------------------------------
\* WaitQueryToComplete
\* ------------------------------------------------------------------------
TimeoutErr == Err("timeout", 0, "", "", JAbsent)

\* the first delay between polls
InitialDelay == 200
\* the cap of the delay between polls
MaxDelay == 2000

\* a timeout test that takes a zero executionTimeout for a timeout
TimedOutUnguarded(executionTimeout, elapsed) == elapsed > executionTimeout

\* the timeout test at the top of the loop
TimedOut(executionTimeout, elapsed) ==
  executionTimeout > 0 /\ elapsed > executionTimeout

\* a terminal test that forgets PENDING
IsTerminalNotRunning(status) == status # "RUNNING"

\* a status that ends the wait
IsTerminal(status) == status # "RUNNING" /\ status # "PENDING"

\* a doubling without the cap
NextDelayUncapped(delay) == delay * 2

\* the delay after a completed delay
NextDelay(delay) == IF delay * 2 > MaxDelay THEN MaxDelay ELSE delay * 2

\* the frame of WaitQueryToComplete: its variables startTime and delay,
\* its position, its return values, and what it did so far: status polls
\* and StopQuery calls it made, the delays it completed, whether its
\* timeout test fired
WqIdle ==
  [pc |-> "idle", startTime |-> 0, delay |-> 0, res |-> NoRet,
   polls |-> 0, stops |-> 0, delays |-> <<>>, timedOut |-> FALSE]

WqCall == [WqIdle EXCEPT !.pc = "loop", !.startTime = now,
                         !.delay = InitialDelay]

\* The top of the loop: the timeout test, then either the timeout branch
\* (StopQuery when stopOnTimeout, else the timeout error at once) or the
\* next status poll.
WaitIteration ==
  /\ phase = "running"
  /\ wq.pc = "loop"
  /\ IF TimedOut(op.executionTimeout, now - wq.startTime)
     THEN IF op.stopOnTimeout
          THEN /\ wq' = [wq EXCEPT !.pc = "stop", !.stops = @ + 1,
                                   !.timedOut = TRUE]
               /\ api' = ApiCall("StopQuery", EmptyParams)
               /\ dr' = DrCall(ApiMethod("StopQuery"), ApiURL("StopQuery", 0),
                               <<>>)
          ELSE /\ wq' = [wq EXCEPT !.pc = "done", !.timedOut = TRUE,
                                   !.res = RetErr(TimeoutErr)]
               /\ UNCHANGED <<api, dr>>
     ELSE /\ wq.polls < MaxPolls
          /\ wq' = [wq EXCEPT !.pc = "poll", !.polls = @ + 1]
          /\ api' = ApiCall("GetQueryStatus", EmptyParams)
          /\ dr' = DrCall(ApiMethod("GetQueryStatus"),
                          ApiURL("GetQueryStatus", 0), <<>>)
  /\ UNCHANGED <<cfg, ctxDone, now, faults, phase, op, ret, ws, rs, wire,
                 be, ar, calls, obj, callers>>

\* StopQuery returned: its error is dropped and the timeout error returned
\* (a panic in StopQuery is not an error value: it unwinds this call too)
WaitAfterStop ==
  /\ phase = "running"
  /\ wq.pc = "stop"
  /\ api.pc = "done"
  /\ wq' = [wq EXCEPT !.pc = "done",
                      !.res = IF api.res.panic THEN RetPanic
                              ELSE RetErr(TimeoutErr)]
  /\ UNCHANGED <<cfg, ctxDone, now, faults, phase, op, ret, dr, api, ws, rs,
                 wire, be, ar, calls, obj, callers>>

\* GetQueryStatus returned: its error or a terminal status ends the wait,
\* else the select of the delay is entered
WaitAfterPoll ==
  /\ phase = "running"
  /\ wq.pc = "poll"
  /\ api.pc = "done"
  /\ wq' = IF api.res.panic THEN [wq EXCEPT !.pc = "done", !.res = RetPanic]
           ELSE IF api.res.err # NilErr
                THEN [wq EXCEPT !.pc = "done", !.res = RetErr(api.res.err)]
           ELSE IF IsTerminal(api.res.str)
                THEN [wq EXCEPT !.pc = "done",
                                !.res = Ret(FALSE, NilErr, api.res.str,
                                            EmptyDoc, 0)]
           ELSE [wq EXCEPT !.pc = "select"]
  /\ IF IsTerminal(api.res.str) \/ api.res.panic \/ api.res.err # NilErr
     THEN UNCHANGED <<api, dr>>
     ELSE api' = ApiIdle /\ dr' = DrIdle
  /\ UNCHANGED <<cfg, ctxDone, now, faults, phase, op, ret, ws, rs, wire,
                 be, ar, calls, obj, callers>>

\* the select between polls, when the timer fires
WaitDelay ==
  /\ phase = "running"
  /\ wq.pc = "select"
  /\ TimerCase(ctxDone)
  /\ now' = After(now, wq.delay)
  /\ wq' = [wq EXCEPT !.pc = "loop", !.delay = NextDelay(@),
                      !.delays = Append(@, wq.delay)]
  /\ UNCHANGED <<cfg, ctxDone, faults, phase, op, ret, dr, api, ws, rs,
                 wire, be, ar, calls, obj, callers>>

\* the select between polls, when the context is done
WaitCancelled ==
  /\ phase = "running"
  /\ wq.pc = "select"
  /\ ctxDone
  /\ wq' = [wq EXCEPT !.pc = "done", !.res = RetErr(CtxErr)]
  /\ UNCHANGED <<cfg, ctxDone, now, faults, phase, op, ret, dr, api, ws, rs,
                 wire, be, ar, calls, obj, callers>>

\* ------------------------------------------------------------------------
\* WaitQueryToSucceed
\* ------------------------------------------------------------------------
\* fmt.Errorf("query %s failed with issues=%v", queryID, issues)
IssuesErr(issues) == Err("issues", 0, "", "", issues)
\* fmt.Errorf("unexpected result_sets format")
ResultSetsErr == Err("result_sets", 0, "", "", JAbsent)

\* v.([]interface{}) in its two-value form: the slice and ok; the slice
\* is nil (empty) when v is no array
AssertArray(v) ==
  IF v.t = "array" THEN [slice |-> v.a, ok |-> TRUE]
  ELSE [slice |-> <<>>, ok |-> FALSE]

\* the frame of WaitQueryToSucceed: its variables status and query, its
\* position,
\* its return values, and the GetQuery calls it made
WsIdle ==
  [pc |-> "idle", status |-> "", query |-> EmptyDoc, res |-> NoRet,
   gets |-> 0]

\* WaitQueryToComplete returned: its error is returned, else the query
\* document is fetched
SucceedAfterWait ==
  /\ phase = "running"
  /\ ws.pc = "wait"
  /\ wq.pc = "done"
  /\ IF wq.res.panic \/ wq.res.err # NilErr
     THEN /\ ws' = [ws EXCEPT !.pc = "done",
                              !.res = IF wq.res.panic THEN RetPanic
                                      ELSE RetErr(wq.res.err)]
          /\ UNCHANGED <<api, dr>>
     ELSE /\ ws' = [ws EXCEPT !.pc = "get", !.status = wq.res.str,
                              !.gets = @ + 1]
          /\ api' = ApiCall("GetQuery", EmptyParams)
          /\ dr' = DrCall(ApiMethod("GetQuery"), ApiURL("GetQuery", 0), <<>>)
  /\ UNCHANGED <<cfg, ctxDone, now, faults, phase, op, ret, wq, rs, wire,
                 be, ar, calls, obj, callers>>

\* what WaitQueryToSucceed makes of the status and the query document
SucceedResult(status, query) ==
  IF status # "COMPLETED"
  THEN RetErr(IssuesErr(JArr(AssertArray(Field(query, "issues")).slice)))
  ELSE IF ~AssertArray(Field(query, "result_sets")).ok
       THEN RetErr(ResultSetsErr)
  ELSE Ret(FALSE, NilErr, "", EmptyDoc,
           Len(AssertArray(Field(query, "result_sets")).slice))

\* GetQuery returned
SucceedAfterGet ==
  /\ phase = "running"
  /\ ws.pc = "get"
  /\ api.pc = "done"
  /\ ws' = [ws EXCEPT
              !.pc = "done",
              !.query = api.res.doc,
              !.res = IF api.res.panic THEN RetPanic
                      ELSE IF api.res.err # NilErr THEN RetErr(api.res.err)
                      ELSE SucceedResult(ws.status, api.res.doc)]
  /\ UNCHANGED <<cfg, ctxDone, now, faults, phase, op, ret, dr, api, wq, rs,
                 wire, be, ar, calls, obj, callers>>

\* WaitQueryToSucceed returns to the caller
ReturnSucceed ==
  /\ phase = "running"
  /\ op.name = "WaitQueryToSucceed"
  /\ ws.pc = "done"
  /\ ret' = ws.res
  /\ phase' = "returned"
  /\ UNCHANGED <<cfg, ctxDone, now, faults, op, dr, api, wq, ws, rs, wire,
                 be, ar, calls, obj, callers>>

\* the timeouts the model waits with
ExecutionTimeouts == {0, 300, 2500}

WaitArgs ==
  {[Args(name) EXCEPT !.executionTimeout = t, !.stopOnTimeout = s] :
     name \in {"WaitQueryToComplete"}, t \in ExecutionTimeouts,
     s \in BOOLEAN}

\* the caller invokes WaitQueryToComplete
CallWait ==
  /\ phase = "idle"
  /\ \E o \in WaitArgs :
       /\ op' = o
       /\ wq' = WqCall
  /\ phase' = "running"
  /\ UNCHANGED <<cfg, ctxDone, now, faults, ret, dr, api, ws, rs, wire, be,
                 ar, calls, obj, callers>>

\* the caller invokes WaitQueryToSucceed, which calls WaitQueryToComplete
\* with its own arguments
CallSucceed ==
  /\ phase = "idle"
  /\ \E o \in WaitArgs :
       /\ op' = [o EXCEPT !.name = "WaitQueryToSucceed"]
       /\ wq' = WqCall
       /\ ws' = [WsIdle EXCEPT !.pc = "wait"]
  /\ phase' = "running"
  /\ UNCHANGED <<cfg, ctxDone, now, faults, ret, dr, api, rs, wire, be, ar,
                 calls, obj, callers>>

\* WaitQueryToComplete returns to the caller
ReturnWait ==
  /\ phase = "running"
  /\ op.name = "WaitQueryToComplete"
  /\ wq.pc = "done"
  /\ ret' = wq.res
  /\ phase' = "returned"
  /\ UNCHANGED <<cfg, ctxDone, now, faults, op, dr, api, wq, ws, rs, wire,
                 be, ar, calls, obj, callers>>

\* ------------------------------------------------------------------------
\* GetQueryResultSet
\* ------------------------------------------------------------------------
\* the limit GetQueryResultSet asks every page with
PageLimit == 1000

\* fmt.Errorf("unexpected rows format")
RowsFormatErr == Err("rows format", 0, "", "", JAbsent)

\* the frame of GetQueryResultSet: its parameter resultSetIndex, its
\* variables offset, limit, columns and rows, its position, its return
\* values, and the offsets it called GetQueryResultSetPage with
RsIdle ==
  [pc |-> "idle", index |-> 0, offset |-> 0, limit |-> 0,
   columns |-> JAbsent, rows |-> <<>>, res |-> NoRet, offsets |-> <<>>]

RsCall == [RsIdle EXCEPT !.pc = "loop", !.limit = PageLimit]

\* the caller invokes GetQueryResultSet on a result set of the service
CallResultSet ==
  /\ phase = "idle"
  /\ \E raw \in BOOLEAN, n \in ResultSizes, w \in DefaultWindows :
       /\ op' = [Args("GetQueryResultSet") EXCEPT !.rawFormat = raw]
       /\ be' = [be EXCEPT !.N = n, !.defWindow = w]
  /\ rs' = [RsCall EXCEPT !.index = op'.index]
  /\ phase' = "running"
  /\ UNCHANGED <<cfg, ctxDone, now, faults, ret, dr, api, wq, ws, wire, ar,
                 calls, obj, callers>>

\* the top of the loop: GetQueryResultSetPage is called with the offset
\* and the limit
ResultSetIteration ==
  /\ phase = "running"
  /\ rs.pc = "loop"
  /\ Len(rs.offsets) < MaxPages
  /\ rs' = [rs EXCEPT !.pc = "page", !.offsets = Append(@, rs.offset)]
  /\ api' = ApiCall("GetQueryResultSetPage", PageParams(rs.offset, rs.limit))
  /\ dr' = DrCall(ApiMethod("GetQueryResultSetPage"),
                  ApiURL("GetQueryResultSetPage", rs.index), <<>>)
  /\ UNCHANGED <<cfg, ctxDone, now, faults, phase, op, ret, wq, ws, wire,
                 be, ar, calls, obj, callers>>

\* the result GetQueryResultSet returns once the loop is left: the raw
\* document, or NewYQResults(result).Results()
ResultSetResult(rows, columns, rawFormat) ==
  LET result == [rows |-> JArr(rows), columns |-> columns]
  IN IF rawFormat THEN Ret(FALSE, NilErr, "", result, 0)
     ELSE IF ConvertDoc(result).panic THEN RetPanic
     ELSE Ret(FALSE, NilErr, "", ConvertDoc(result).doc, 0)

\* the test that leaves the loop
LastPage(r, limit) == Len(r) # limit

\* GetQueryResultSetPage returned: its error is returned; else the columns
\* are taken if none are held yet, the page's rows are appended, and the
\* loop is left on a page that is not full or continued at offset + limit
ResultSetAfterPage ==
  /\ phase = "running"
  /\ rs.pc = "page"
  /\ api.pc = "done"
  /\ LET part == api.res.doc
         columns == IF IsNil(rs.columns) THEN Field(part, "columns")
                    ELSE rs.columns
         r == AssertArray(Field(part, "rows"))
         rows == rs.rows \o r.slice
     IN rs' = IF api.res.panic THEN [rs EXCEPT !.pc = "done", !.res = RetPanic]
              ELSE IF api.res.err # NilErr
                   THEN [rs EXCEPT !.pc = "done", !.res = RetErr(api.res.err)]
              ELSE IF ~r.ok
                   THEN [rs EXCEPT !.pc = "done", !.columns = columns,
                                   !.res = RetErr(RowsFormatErr)]
              ELSE IF LastPage(r.slice, rs.limit)
                   THEN [rs EXCEPT !.pc = "done", !.columns = columns,
                                   !.rows = rows,
                                   !.res = ResultSetResult(rows, columns,
                                                           op.rawFormat)]
              ELSE [rs EXCEPT !.pc = "loop", !.columns = columns,
                              !.rows = rows, !.offset = @ + rs.limit]
  /\ api' = [api EXCEPT !.pc = "idle"]
  /\ UNCHANGED <<cfg, ctxDone, now, faults, phase, op, ret, dr, wq, ws,
                 wire, be, ar, calls, obj, callers>>

\* GetQueryResultSet returns to the caller
ReturnResultSet ==
  /\ phase = "running"
  /\ op.name = "GetQueryResultSet"
  /\ rs.pc = "done"
  /\ ret' = rs.res
  /\ phase' = "returned"
  /\ UNCHANGED <<cfg, ctxDone, now, faults, op, dr, api, wq, ws, rs, wire,
                 be, ar, calls, obj, callers>>

\* ------------------------------------------------------------------------
\* GetQueryAllResultSets
\* ------------------------------------------------------------------------
\* what GetQueryAllResultSets hands back: a panic, or an interface{} value
\* and an error
AllRet(panic, err, val) == [panic |-> panic, err |-> err, val |-> val]

\* the frame of GetQueryAllResultSets: its parameter resultSetCount, its
\* variables i and results, its position, its return values, and the
\* indices it called GetQueryResultSet with
ArIdle ==
  [pc |-> "idle", count |-> 0, i |-> 0, results |-> <<>>,
   res |-> AllRet(FALSE, NilErr, JAbsent), fetched |-> <<>>]

\* the counts and the result sets the model calls GetQueryAllResultSets
\* with
ResultSetCounts == {0, 1, 2, 3}
AllSizes == {0, 400}

\* a test that never takes the single result set's branch
SingleSetNever(resultSetCount) == FALSE

\* if resultSetCount == 1
SingleSet(resultSetCount) == resultSetCount = 1

\* the caller invokes GetQueryAllResultSets: with a count of 1 it calls
\* GetQueryResultSet for index 0 and will return what that returns, else
\* it enters its loop
CallAllResultSets ==
  /\ phase = "idle"
  /\ \E raw \in BOOLEAN, n \in AllSizes, count \in ResultSetCounts :
       /\ op' = [Args("GetQueryAllResultSets") EXCEPT !.rawFormat = raw]
       /\ be' = [be EXCEPT !.N = n, !.defWindow = PageLimit]
       /\ IF SingleSet(count)
          THEN /\ ar' = [ArIdle EXCEPT !.pc = "single", !.count = count,
                                       !.fetched = <<0>>]
               /\ rs' = RsCall
          ELSE /\ ar' = [ArIdle EXCEPT !.pc = "loop", !.count = count]
               /\ rs' = rs
  /\ phase' = "running"
  /\ UNCHANGED <<cfg, ctxDone, now, faults, ret, dr, api, wq, ws, wire,
                 calls, obj, callers>>

\* the loop's test i < resultSetCount: the next index is fetched, or the
\* results are returned
AllIteration ==
  /\ phase = "running"
  /\ ar.pc = "loop"
  /\ IF ar.i < ar.count
     THEN /\ ar' = [ar EXCEPT !.pc = "fetch", !.fetched = Append(@, ar.i)]
          /\ rs' = [RsCall EXCEPT !.index = ar.i]
     ELSE /\ ar' = [ar EXCEPT !.pc = "done",
                              !.res = AllRet(FALSE, NilErr, JArr(ar.results))]
          /\ rs' = rs
  /\ UNCHANGED <<cfg, ctxDone, now, faults, phase, op, ret, dr, api, wq, ws,
                 wire, be, calls, obj, callers>>

\* GetQueryResultSet returned: in the single branch its values are
\* returned; in the loop its error is returned, else its result set is
\* appended and i++
AllAfterFetch ==
  /\ phase = "running"
  /\ ar.pc \in {"single", "fetch"}
  /\ rs.pc = "done"
  /\ ar' = IF rs.res.panic
           THEN [ar EXCEPT !.pc = "done", !.res = AllRet(TRUE, NilErr, JAbsent)]
           ELSE IF rs.res.err # NilErr
           THEN [ar EXCEPT !.pc = "done",
                           !.res = AllRet(FALSE, rs.res.err, JNull)]
           ELSE IF ar.pc = "single"
           THEN [ar EXCEPT !.pc = "done",
                           !.res = AllRet(FALSE, NilErr, JObj(rs.res.doc))]
           ELSE [ar EXCEPT !.pc = "loop", !.i = @ + 1,
                           !.results = Append(@, JObj(rs.res.doc))]
  /\ rs' = [rs EXCEPT !.pc = "idle"]
  /\ UNCHANGED <<cfg, ctxDone, now, faults, phase, op, ret, dr, api, wq, ws,
                 wire, be, calls, obj, callers>>

\* GetQueryAllResultSets returns to the caller
ReturnAllResultSets ==
  /\ phase = "running"
  /\ ar.pc = "done"
  /\ ret' = ar.res
  /\ phase' = "returned"
  /\ UNCHANGED <<cfg, ctxDone, now, faults, op, dr, api, wq, ws, rs, ar,
                 wire, be, calls, obj, callers>>

\* ------------------------------------------------------------------------
\* Concurrent calls of GetQueryResultSet on one client
\* ------------------------------------------------------------------------
\* the frame of one of the concurrent calls: the locals of
\* GetQueryResultSet, its position and return values, and what the call
\* did so far: the offsets it asked pages at, the rows it received
ConcIdle ==
  [pc |-> "idle", offset |-> 0, limit |-> 0, columns |-> JAbsent,
   rows |-> <<>>, res |-> NoRet, asked |-> <<>>, got |-> <<>>]

\* the sizes of the result set the concurrent calls read
ConcSizes == {400, 1000}

\* offset, rows and columns kept in one place for all the calls, as
\* fields of the client would be
HomeShared(c) == CHOOSE d \in Callers : \A e \in Callers : d <= e

\* where the locals offset, rows and columns of the call of goroutine c
\* live: in the call's own frame
Home(c) == c

\* what a call of GetQueryResultSetPage may return: the outcome of a
\* response of the service to the page request, the context's error, or
\* the panic of exhausted retries
PageReturns(index) ==
  {AfterDoRequest("GetQueryResultSetPage", r, NilErr) :
     r \in {a \in Responses("GetQueryResultSetPage",
                            [method |-> ApiMethod("GetQueryResultSetPage"),
                             url |-> ApiURL("GetQueryResultSetPage", index)]) :
              a.code = 200 /\ Decodes(a.body)}}
  \cup {RetErr(CtxErr), RetPanic}

\* a goroutine calls GetQueryResultSet
ConcCall(c) ==
  /\ calls[c].pc = "idle"
  /\ calls' = [[calls EXCEPT ![c].pc = "loop", ![c].limit = PageLimit]
                 EXCEPT ![Home(c)].offset = 0, ![Home(c)].rows = <<>>,
                        ![Home(c)].columns = JAbsent]
  /\ UNCHANGED <<cfg, ctxDone, now, faults, phase, op, ret, dr, api, wq, ws,
                 rs, ar, wire, be, obj, callers>>

\* one turn of the loop of GetQueryResultSet: the page at the offset is
\* asked for and what GetQueryResultSetPage returns is dealt with
ConcPage(c) ==
  /\ calls[c].pc = "loop"
  /\ Len(calls[c].asked) < MaxPages
  /\ \E part \in PageReturns(0) :
       LET home == calls[Home(c)]
           columns == IF IsNil(home.columns) THEN Field(part.doc, "columns")
                      ELSE home.columns
           r == AssertArray(Field(part.doc, "rows"))
           rows == home.rows \o r.slice
           f == [calls EXCEPT ![c].asked = Append(@, home.offset)]
       IN calls' =
            IF part.panic THEN [f EXCEPT ![c].pc = "done", ![c].res = RetPanic]
            ELSE IF part.err # NilErr
            THEN [f EXCEPT ![c].pc = "done", ![c].res = RetErr(part.err)]
            ELSE IF ~r.ok
            THEN [f EXCEPT ![c].pc = "done", ![c].res = RetErr(RowsFormatErr),
                           ![Home(c)].columns = columns]
            ELSE IF LastPage(r.slice, calls[c].limit)
            THEN [f EXCEPT ![c].pc = "done", ![c].got = @ \o r.slice,
                           ![c].res = ResultSetResult(rows, columns, TRUE),
                           ![Home(c)].columns = columns,
                           ![Home(c)].rows = rows]
            ELSE [f EXCEPT ![c].got = @ \o r.slice,
                           ![Home(c)].columns = columns,
                           ![Home(c)].rows = rows,
                           ![Home(c)].offset = @ + calls[c].limit]
  /\ UNCHANGED <<cfg, ctxDone, now, faults, phase, op, ret, dr, api, wq, ws,
                 rs, ar, wire, be, obj, callers>>

\* the caller's context is cancelled
Cancel ==
  /\ phase = "running"
  /\ ~ctxDone
  /\ ctxDone' = TRUE
  /\ UNCHANGED <<cfg, now, faults, phase, op, ret, dr, api, wq, ws, rs,
                 wire, be, ar, calls, obj, callers>>

\* the service before any request
ServiceInit ==
  [N |-> 0, defWindow |-> 0, statuses |-> 0, running |-> 0,
   firstTerminal |-> 0, terminal |-> "", pages |-> 0]

ClientInit ==
  /\ cfg \in {NewClient(c) : c \in ConfigInputs}
  /\ ctxDone = FALSE
  /\ now = 0
  /\ faults = 0
  /\ phase = "idle"
  /\ op = Args("")
  /\ ret = NoRet
  /\ dr = DrIdle
  /\ api = ApiIdle
  /\ wq = WqIdle
  /\ ws = WsIdle
  /\ rs = RsIdle
  /\ ar = ArIdle
  /\ calls = [c \in Callers |-> ConcIdle]
  /\ wire = [n |-> 0, last |-> DrIdle.req]

\* no Results instance is shared
NoResults ==
  /\ obj = NewYQResults(EmptyDoc)
  /\ callers = [c \in Callers |-> CallerIdle]

Init == ClientInit /\ be = ServiceInit /\ NoResults

\* the actions of doRequest and of the remote operation around it
RequestStep ==
  \/ doRequestAttempt
  \/ doRequestBackoff
  \/ doRequestCancelled
  \/ RemoteReturn

\* A caller that invokes one remote operation.
NextRemote ==
  \/ CallRemote
  \/ RequestStep
  \/ ReturnRemote
  \/ Cancel

SpecRemote == Init /\ [][NextRemote]_vars

\* A caller that invokes WaitQueryToComplete.
NextWait ==
  \/ CallWait
  \/ RequestStep
  \/ WaitIteration
  \/ WaitAfterStop
  \/ WaitAfterPoll
  \/ WaitDelay
  \/ WaitCancelled
  \/ ReturnWait
  \/ Cancel

\* the waits do not depend on the configured project
InitWait == Init /\ cfg.Project = <<>>

SpecWait == InitWait /\ [][NextWait]_vars

\* A caller that invokes WaitQueryToSucceed.
NextSucceed ==
  \/ CallSucceed
  \/ RequestStep
  \/ WaitIteration
  \/ WaitAfterStop
  \/ WaitAfterPoll
  \/ WaitDelay
  \/ WaitCancelled
  \/ SucceedAfterWait
  \/ SucceedAfterGet
  \/ ReturnSucceed
  \/ Cancel

SpecSucceed == InitWait /\ [][NextSucceed]_vars

\* A caller that invokes GetQueryResultSet.
NextPaging ==
  \/ CallResultSet
  \/ RequestStep
  \/ ResultSetIteration
  \/ ResultSetAfterPage
  \/ ReturnResultSet
  \/ Cancel

SpecPaging == InitWait /\ [][NextPaging]_vars

\* A caller that invokes GetQueryAllResultSets.
NextAll ==
  \/ CallAllResultSets
  \/ RequestStep
  \/ ResultSetIteration
  \/ ResultSetAfterPage
  \/ AllIteration
  \/ AllAfterFetch
  \/ ReturnAllResultSets
  \/ Cancel

SpecAll == InitWait /\ [][NextAll]_vars

\* Goroutines that call GetQueryResultSet on one client at the same time.
InitConcurrent ==
  /\ ClientInit
  /\ cfg.Project = <<>>
  /\ be \in {[ServiceInit EXCEPT !.N = n, !.defWindow = w] :
               n \in ConcSizes, w \in DefaultWindows}
  /\ NoResults

NextConcurrent ==
  \E c \in Callers :
    \/ ConcCall(c)
    \/ ConcPage(c)

SpecConcurrent == InitConcurrent /\ [][NextConcurrent]_vars

\* Goroutines that share one Results instance.
InitResults ==
  /\ ClientInit
  /\ be = ServiceInit
  /\ cfg.Project = <<>>
  /\ obj \in {NewYQResults(raw) : raw \in RawInputs}
  /\ callers = [c \in Callers |-> CallerIdle]

NextResults ==
  \E c \in Callers :
    \/ CallAccessor(c)
    \/ CallRawResults(c)
    \/ CheckCache(c)
    \/ ConvertStep(c)
    \/ StoreCache(c)
    \/ ReturnAccessor(c)

SpecResults == InitResults /\ [][NextResults]_vars

\* One goroutine that calls the methods of a Results instance over a
\* document of one cell.
InitConvert ==
  /\ ClientInit
  /\ be = ServiceInit
  /\ cfg.Project = <<>>
  /\ obj \in {NewYQResults(CellDoc(type, cell)) :
                type \in ColumnTypes, cell \in RawCells}
  /\ callers = [c \in Callers |-> CallerIdle]

\* One goroutine that calls the methods of a Results instance one after
\* the other.
SingleCaller == {c \in Callers : \A d \in Callers : c <= d}

NextSingle ==
  \E c \in SingleCaller :
    \/ CallAccessor(c)
    \/ CallRawResults(c)
    \/ CheckCache(c)
    \/ ConvertStep(c)
    \/ StoreCache(c)
    \/ ReturnAccessor(c)

SpecSingle == InitResults /\ [][NextSingle]_vars

SpecConvert == InitConvert /\ [][NextSingle]_vars

\* ------------------------------------------------------------------------
\* Properties of doRequest
\* ------------------------------------------------------------------------
\* doRequest has returned
Returned == dr.pc \in {"ret", "idle"} /\ dr.attempts > 0

\* doRequest has returned from a call in which every attempt failed at
\* transport level and every backoff ran to its end (the context was not
\* cancelled while the call ran)
Exhausted ==
  /\ Returned
  /\ dr.responses = 0
  /\ dr.lastDoErr.kind = "transport"
  /\ Len(dr.waits) = dr.attempts

\* C1: when every attempt of an outbound call fails at transport level and
\* the context is never cancelled, doRequest returns a non-nil error equal
\* to the transport error of the last failed attempt, never a nil response
\* with a nil error, and the calling operation reports that error instead
\* of dereferencing a missing response.
C1_LastTransportErrorReturned ==
  Exhausted =>
    /\ dr.retErr # NilErr
    /\ dr.retErr = dr.lastDoErr
    /\ ~(dr.retResp = NilResp /\ dr.retErr = NilErr)
    /\ api.pc = "done" => ~api.res.panic /\ api.res.err = dr.lastDoErr

\* C2: an outbound call makes at most MaxRetryForSession + 1 attempts; an
\* attempt follows only attempts that failed at transport level; the first
\* attempt that yields a response of any status ends the call with that
\* response, so a refused status reaches the caller as its error and is
\* never followed by a retry.
C2_RetryOnlyTransportFailures ==
  /\ dr.attempts <= MaxRetryForSession + 1
  /\ dr.responses <= 1
  /\ dr.responses = 1 =>
       /\ dr.pc \in {"ret", "idle"}
       /\ dr.retResp = dr.resp /\ dr.resp # NilResp /\ dr.retErr = NilErr
       /\ dr.attempts = Len(dr.waits) + 1
       /\ (api.pc = "done" /\ dr.resp.code # ExpectedCode(api.name)) =>
            api.res.err.kind = "yq" /\ api.res.err.n = dr.resp.code
  /\ dr.responses = 0 =>
       dr.attempts = Len(dr.waits) + (IF dr.pc = "select" THEN 1 ELSE 0)
                     + (IF dr.retErr = CtxErr THEN 1 ELSE 0)

\* C2 witness: a call that got a refused status on its third attempt and
\* handed it to the caller
C2_Witness ==
  /\ phase = "returned"
  /\ dr.attempts = 3 /\ dr.responses = 1 /\ dr.resp.code = 400
  /\ ret.err.kind = "yq" /\ ret.err.n = 400

\* C8: backoff waits happen only between attempts and grow linearly: a
\* call whose 5 attempts all fail at transport level waits 1s, 2s, 3s, 4s,
\* the k-th wait being TimeBetweenRetries * k, and does not wait after its
\* final attempt.
C8_WaitsOnlyBetweenAttempts ==
  Exhausted =>
    /\ dr.attempts = MaxRetryForSession + 1
    /\ dr.waits = [k \in 1..MaxRetryForSession |-> TimeBetweenRetries * k]

\* ------------------------------------------------------------------------
\* Properties of GetQueryResultSetPage
\* ------------------------------------------------------------------------
\* C4: the request GetQueryResultSetPage sends carries the query parameter
\* offset exactly when offset > 0 (with that value), limit exactly when
\* limit > 0 (with that value), and project exactly when a project is
\* configured.
C4_PageRequestCarriesParams ==
  (op.name = "GetQueryResultSetPage" /\ wire.n > 0) =>
    LET query == wire.last.url.query
    IN /\ "offset" \in DOMAIN query <=> op.offset > 0
       /\ op.offset > 0 => query["offset"] = Itoa(op.offset)
       /\ "limit" \in DOMAIN query <=> op.limit > 0
       /\ op.limit > 0 => query["limit"] = Itoa(op.limit)
       /\ "project" \in DOMAIN query <=> cfg.Project # <<>>
       /\ cfg.Project # <<>> => query["project"] = cfg.Project

\* ------------------------------------------------------------------------
\* Properties of WaitQueryToComplete
\* ------------------------------------------------------------------------
\* the wait returned a status
WaitSucceeded == wq.pc = "done" /\ ~wq.res.panic /\ wq.res.err = NilErr

\* C5: WaitQueryToComplete returns at the first poll whose status is
\* outside RUNNING, PENDING, with exactly that status and no further poll:
\* when the first such status is the n-th one the service reports, exactly
\* n polls are made; a wait that returns a status returns that first one.
C5_ReturnsAtFirstTerminalStatus ==
  /\ be.firstTerminal > 0 =>
       /\ wq.polls = be.firstTerminal
       /\ be.statuses = be.firstTerminal
       /\ wq.pc \in {"poll", "done"}
       /\ wq.pc = "done" => wq.res = Ret(FALSE, NilErr, be.terminal, EmptyDoc, 0)
  /\ WaitSucceeded =>
       /\ be.firstTerminal > 0
       /\ wq.res.str = be.terminal /\ wq.res.str \notin {"RUNNING", "PENDING"}
       /\ wq.polls = be.firstTerminal
       /\ Len(wq.delays) = wq.polls - 1

\* C5 witness: the statuses RUNNING, RUNNING, COMPLETED were reported and
\* the wait returned COMPLETED after 3 polls
C5_Witness ==
  /\ phase = "returned"
  /\ be.running = 2 /\ be.firstTerminal = 3 /\ be.terminal = "COMPLETED"
  /\ wq.polls = 3
  /\ ret = Ret(FALSE, NilErr, "COMPLETED", EmptyDoc, 0)

\* C6: with a positive executionTimeout, a wait whose timeout test fired
\* fails with the timeout error; StopQuery is requested if and only if the
\* timeout fired and stopOnTimeout is set, once and before the return; the
\* timeout error is returned whatever became of StopQuery.
C6_TimeoutErrorWhateverStopDoes ==
  wq.pc = "done" =>
    /\ wq.timedOut => op.executionTimeout > 0
    /\ wq.timedOut => wq.res = RetErr(TimeoutErr)
    /\ wq.stops > 0 <=> (wq.timedOut /\ op.stopOnTimeout)
    /\ wq.stops <= 1

\* C7: every wait point is cancellable. When the context is done while
\* doRequest is in its backoff select, the call returns the context's error
\* without completing the wait and without another attempt; when it is
\* done while WaitQueryToComplete is in its select between polls, the wait
\* returns the context's error without completing the delay and without
\* another poll. The remote operation hands the context's error on, the
\* wait hands on that of its poll, and nothing is sent after a wait that
\* returned the context's error.
C7_StepsWhenDone ==
  /\ (dr.pc = "select" /\ ctxDone) =>
       /\ dr'.pc = "ret" /\ dr'.retErr = CtxErr /\ dr'.retResp = NilResp
       /\ dr'.attempts = dr.attempts /\ dr'.waits = dr.waits
       /\ now' = now /\ wire' = wire
  /\ (wq.pc = "select" /\ ctxDone) =>
       /\ wq'.pc = "done" /\ wq'.res = RetErr(CtxErr)
       /\ wq'.polls = wq.polls /\ wq'.delays = wq.delays
       /\ now' = now /\ wire' = wire
  /\ (wq.pc = "done" /\ wq.res = RetErr(CtxErr)) => wire' = wire

C7_ErrorHandedOn ==
  /\ (api.pc = "done" /\ dr.retErr = CtxErr) => api.res = RetErr(CtxErr)
  /\ (wq.pc = "done" /\ wq.stops = 0 /\ dr.retErr = CtxErr
        /\ api.name = "GetQueryStatus") => wq.res = RetErr(CtxErr)
  /\ (ws.pc = "done" /\ wq.pc = "done" /\ wq.res = RetErr(CtxErr)) =>
       ws.res = RetErr(CtxErr) /\ ws.gets = 0
  /\ (ws.pc = "done" /\ api.name = "GetQuery" /\ dr.retErr = CtxErr) =>
       ws.res = RetErr(CtxErr)

C7_WaitPointsCancellable ==
  [][C7_StepsWhenDone]_vars /\ []C7_ErrorHandedOn

\* C7 witness: the context was cancelled in the backoff of the second
\* poll, after one completed delay between polls, and its error returned
C7_Witness ==
  /\ phase = "returned" /\ ret = RetErr(CtxErr)
  /\ wq.polls = 2 /\ wq.delays = <<InitialDelay>>
  /\ dr.retErr = CtxErr /\ dr.attempts = 2 /\ dr.waits = <<TimeBetweenRetries>>

\* ------------------------------------------------------------------------
\* Properties of WaitQueryToSucceed
\* ------------------------------------------------------------------------
\* C9: WaitQueryToSucceed waits for a terminal status, then fetches the
\* query document exactly once, and not at all if the wait failed. With
\* the document fetched: a status other than COMPLETED gives an error that
\* embeds the document's issues, and count 0; COMPLETED with an array
\* result_sets gives its length and no error; COMPLETED with result_sets
\* absent or not an array gives an error.
C9_SucceedResultFromDocument ==
  ws.pc = "done" =>
    /\ ws.gets = IF WaitSucceeded THEN 1 ELSE 0
    /\ (ws.gets = 1 /\ ~api.res.panic /\ api.res.err = NilErr) =>
         LET issues == Field(ws.query, "issues")
             sets == Field(ws.query, "result_sets")
         IN IF ws.status # "COMPLETED"
            THEN /\ ws.res.err.kind = "issues" /\ ws.res.n = 0
                 /\ issues # JAbsent => ws.res.err.issues = issues
            ELSE IF sets.t = "array"
                 THEN ws.res = Ret(FALSE, NilErr, "", EmptyDoc, Len(sets.a))
                 ELSE ws.res.err # NilErr /\ ws.res.n = 0

\* ------------------------------------------------------------------------
\* Properties of GetQueryResultSet
\* ------------------------------------------------------------------------
\* C3: GetQueryResultSet asks for the pages at offsets 0, 1000, 2000, ...
\* with limit 1000 and, the service selecting rows by the offset and limit
\* it receives, returns the rows of the distinct pages in order with the
\* columns of the first page: every row of the result set exactly once
\* (3 page requests and 2400 rows for pages of 1000, 1000 and 400 rows).
C3_AllRowsOnceInOrder ==
  (phase = "returned" /\ ~ret.panic /\ ret.err = NilErr) =>
    /\ rs.offsets = [k \in 1..(be.N \div PageLimit + 1) |->
                       (k - 1) * PageLimit]
    /\ be.pages = be.N \div PageLimit + 1
    /\ Field(ret.doc, "rows").a = [i \in 1..be.N |-> Row(i)]
    /\ Field(ret.doc, "columns") = Columns

\* ------------------------------------------------------------------------
\* Properties of Results
\* ------------------------------------------------------------------------
\* C10: when goroutines call Results, ToTable or String concurrently before
\* the cache is populated, the conversion runs effectively once: the cache
\* is written at most once, and the values all of them obtain come from
\* one and the same converted document.
C10_ConvertedOnceForAll ==
  /\ obj.writes <= 1
  /\ \A c, d \in Callers :
       (/\ callers[c].pc = "done" /\ callers[c].method \in Accessors
        /\ callers[d].pc = "done" /\ callers[d].method \in Accessors
        /\ ~callers[c].ret.panic /\ ~callers[d].ret.panic) =>
         /\ callers[c].ret.src = callers[d].ret.src
         /\ callers[c].method = callers[d].method =>
              callers[c].ret = callers[d].ret

\* C11: for a single caller, after any sequence of calls of Results,
\* ToTable, String and RawResults the conversion has been computed at most
\* once: one map was allocated and stored, every value an accessor returns
\* is taken from that map, Results returns it with the converted content,
\* and RawResults returns the raw document, which no step changes.
C11_CachedValues ==
  /\ obj.allocs <= 1 /\ obj.writes <= 1
  /\ obj.results.id # 0 =>
       /\ obj.results.id = 1
       /\ ~ConvertDoc(obj.rawResults).panic
       /\ obj.results.doc = ConvertDoc(obj.rawResults).doc
  /\ \A c \in SingleCaller :
       (callers[c].pc = "done" /\ ~callers[c].ret.panic) =>
         /\ callers[c].method \in Accessors =>
              callers[c].ret.src = 1 /\ obj.results.id = 1
         /\ callers[c].method = "Results" =>
              callers[c].ret.val = JObj(obj.results.doc)
         /\ callers[c].method = "RawResults" =>
              callers[c].ret.val = JObj(obj.rawResults)

C11_RawUntouched ==
  /\ obj'.rawResults = obj.rawResults
  /\ obj.results.id # 0 => obj'.results = obj.results

C11_ConvertedAtMostOnce ==
  []C11_CachedValues /\ [][C11_RawUntouched]_vars

\* C11 witness: the third call in a row, a call of Results, returned the
\* map the first call stored
C11_Witness ==
  /\ obj.calls = 3 /\ obj.writes = 1
  /\ \E c \in SingleCaller :
       /\ callers[c].pc = "done" /\ callers[c].method = "Results"
       /\ callers[c].ret = Access(FALSE, 1, JObj(ConvertDoc(obj.rawResults).doc))

\* ------------------------------------------------------------------------
\* Properties of GetQueryAllResultSets
\* ------------------------------------------------------------------------
\* the value is the result set of an index: its columns are that index's
\* and it has the rows the service served
IsResultSetOf(val, index) ==
  /\ val.t = "object"
  /\ Field(val.o, "columns") = ColumnsOf(index)
  /\ Len(Field(val.o, "rows").a) = be.N

\* C12: with a count of 1 GetQueryAllResultSets fetches only index 0 and
\* returns that result set itself, not a sequence; with another count n it
\* fetches the indices 0, 1, ..., n-1 in that order and returns the
\* sequence of the n result sets in index order; when the fetch of an
\* index fails it returns that error and no sequence, and has fetched no
\* later index.
C12_AllResultSetsInIndexOrder ==
  /\ ar.fetched = [k \in 1..Len(ar.fetched) |-> k - 1]
  /\ Len(ar.fetched) <= (IF ar.count = 1 THEN 1 ELSE ar.count)
  /\ ar.pc = "done" =>
       IF ar.res.panic THEN rs.res.panic
       ELSE IF ar.res.err # NilErr
       THEN /\ ar.res.val = JNull
            /\ ar.res.err = rs.res.err
            /\ rs.index = ar.fetched[Len(ar.fetched)]
       ELSE IF ar.count = 1
       THEN ar.fetched = <<0>> /\ IsResultSetOf(ar.res.val, 0)
       ELSE /\ Len(ar.fetched) = ar.count
            /\ ar.res.val.t = "array"
            /\ Len(ar.res.val.a) = ar.count
            /\ \A k \in 1..ar.count : IsResultSetOf(ar.res.val.a[k], k - 1)

\* C12 witness: a count of 3 returned the sequence of three result sets
C12_Witness ==
  /\ phase = "returned" /\ ar.count = 3
  /\ ~ret.panic /\ ret.err = NilErr
  /\ Len(ret.val.a) = 3 /\ be.N = 400

\* C13: with executionTimeout zero WaitQueryToComplete is unbounded:
\* whatever the statuses, the elapsed time and stopOnTimeout, it never
\* returns the timeout error and never requests StopQuery; it ends only on
\* a terminal status, on a failed poll or on the cancellation of the
\* context.
C13_UnboundedWithoutTimeout ==
  op.executionTimeout = 0 =>
    /\ wq.stops = 0 /\ ~wq.timedOut /\ wq.pc # "stop"
    /\ api.name # "StopQuery"
    /\ wq.pc = "done" =>
         /\ wq.res.err # TimeoutErr
         /\ \/ WaitSucceeded /\ wq.res.str \notin {"RUNNING", "PENDING"}
            \/ /\ api.pc = "done" /\ api.name = "GetQueryStatus"
               /\ \/ api.res.panic /\ wq.res = RetPanic
                  \/ api.res.err # NilErr /\ wq.res = RetErr(api.res.err)
            \/ ctxDone /\ wq.res = RetErr(CtxErr)

\* C13 witness: without a timeout and with stopOnTimeout set, a wait that
\* lasted longer than every timeout of the model returned a status
C13_Witness ==
  /\ phase = "returned" /\ op.executionTimeout = 0 /\ op.stopOnTimeout
  /\ \A t \in ExecutionTimeouts : now - wq.startTime > t
  /\ wq.polls = 5 /\ ret = Ret(FALSE, NilErr, "COMPLETED", EmptyDoc, 0)

\* C14: the delay before the k-th re-poll is min(200ms * 2^(k-1), 2s):
\* 200ms, 400ms, 800ms, 1600ms, then 2s for every later one; the delay is
\* always within 200ms and 2s and never decreases.
C14_DelaysDoubleToCap ==
  /\ \A k \in 1..Len(wq.delays) :
       /\ wq.delays[k] = Min(InitialDelay * 2 ^ (k - 1), MaxDelay)
       /\ wq.delays[k] >= InitialDelay /\ wq.delays[k] <= MaxDelay
       /\ k > 1 => wq.delays[k] >= wq.delays[k - 1]
  /\ wq.pc # "idle" =>
       wq.delay = Min(InitialDelay * 2 ^ Len(wq.delays), MaxDelay)
  /\ Len(wq.delays) <= wq.polls

\* C14 witness: six delays were completed, the last two of 2s
C14_Witness ==
  wq.delays = <<200, 400, 800, 1600, 2000, 2000>>

\* ------------------------------------------------------------------------
\* Properties of validateHTTPError
\* ------------------------------------------------------------------------
\* a remote operation returned after its request got a response
Answered == api.pc = "done" /\ dr.responses = 1 /\ dr.retResp = dr.resp

\* the operation's own success status
SuccessStatus(name) == IF name = "StopQuery" THEN 204 ELSE 200

\* C15 as claimed: an operation succeeds only on its own success status
\* (204 for StopQuery, 200 for the others); any other status yields a
\* client error and no result, which carries the status and message fields
\* of the body when the body is a JSON object and is the bare status-code
\* error otherwise.
C15_BareErrorUnlessObject ==
  Answered =>
    /\ (~api.res.panic /\ api.res.err = NilErr) =>
         dr.resp.code = SuccessStatus(api.name)
    /\ dr.resp.code # SuccessStatus(api.name) =>
         /\ api.res = RetErr(api.res.err)
         /\ api.res.err.kind = "yq" /\ api.res.err.n = dr.resp.code
         /\ IF dr.resp.body = "object"
            THEN /\ api.res.err.status = Sprint(Field(dr.resp.doc, "status"))
                 /\ api.res.err.msg = Sprint(Field(dr.resp.doc, "message"))
            ELSE api.res.err.status = "" /\ api.res.err.msg = ""

\* C15 amended: the same, but the bare status-code error is returned only
\* for a body that does not decode; a body that is the JSON null decodes
\* like an object without fields, and the error carries <nil> for both.
C15_BareErrorUnlessDecoded ==
  Answered =>
    /\ (~api.res.panic /\ api.res.err = NilErr) =>
         dr.resp.code = SuccessStatus(api.name)
    /\ dr.resp.code # SuccessStatus(api.name) =>
         /\ api.res = RetErr(api.res.err)
         /\ api.res.err.kind = "yq" /\ api.res.err.n = dr.resp.code
         /\ CASE dr.resp.body = "object" ->
                   /\ api.res.err.status = Sprint(Field(dr.resp.doc, "status"))
                   /\ api.res.err.msg = Sprint(Field(dr.resp.doc, "message"))
              [] dr.resp.body = "null" ->
                   api.res.err.status = "<nil>" /\ api.res.err.msg = "<nil>"
              [] OTHER -> api.res.err.status = "" /\ api.res.err.msg = ""

\* C15 witness: StopQuery was answered 400 with the body {status:
\* BAD_REQUEST, message: x, details: null} and returned the error with
\* these fields
C15_Witness ==
  /\ phase = "returned" /\ op.name = "StopQuery"
  /\ dr.resp = Resp(400, "object", ErrorDoc)
  /\ ret = RetErr(Err("yq", 400, "BAD_REQUEST", "x", JAbsent))

\* what the call of goroutine c did, seen from its own history: the pages
\* asked at 0, 1000, 2000, ..., the rows held are the rows it received,
\* and the offset is past the full pages it received
C16_CallLocal(c) ==
  LET f == calls[c]
  IN /\ f.asked = [k \in 1..Len(f.asked) |-> (k - 1) * PageLimit]
     /\ f.rows = f.got
     /\ f.pc = "loop" => f.offset = Len(f.asked) * PageLimit
     /\ f.pc = "done" /\ ~f.res.panic /\ f.res.err = NilErr
          => f.res = ResultSetResult(f.got, f.columns, TRUE)

C16_CallsLocal == \A c \in Callers : C16_CallLocal(c)

\* C16: under every interleaving of concurrent calls of GetQueryResultSet
\* on one client, the client's configuration keeps the value NewClient
\* gave it, and the offset and the accumulated rows of each call are what
\* that call alone asked for and received: no call sees another's writes.
C16_NoSharedMutation == []C16_CallsLocal /\ [][cfg' = cfg]_vars

\* every goroutine is in the middle of its call, one full page received
C16_Witness ==
  \A c \in Callers :
    /\ calls[c].pc = "loop"
    /\ calls[c].offset = PageLimit
    /\ Len(calls[c].rows) = PageLimit

\* the converted cell the conversion table gives for a column type and a
\* raw cell
C17_Expected(type, cell) ==
  CASE type = "String" /\ cell.t = "string" /\ DecodeString(cell.s).ok ->
         JStr(DecodeString(cell.s).s)
    [] type \in {"Float", "Double"} /\ cell.t = "string"
       /\ ParseFloat(cell.s).ok ->
         JNum(ParseFloat(cell.s).n)
    [] type \in {"Date", "Datetime", "Timestamp"} /\ cell.t = "string"
       /\ ParseRFC3339(cell.s).ok ->
         JTime(ParseRFC3339(cell.s).s)
    [] OTHER -> cell

\* C17: every cell of the converted document is the value the conversion
\* table gives for its column's type name and its raw cell -- the cell
\* itself for the identity types, for type names without a case, for a
\* cell of another wire type and for a failed decode or parse -- and no
\* method fails.
C17_CellByTypeAndRawCell ==
  /\ \A c \in Callers : ~callers[c].ret.panic
  /\ obj.results.id # 0 =>
       LET columns == Field(obj.rawResults, "columns").a
           rows == Field(obj.rawResults, "rows").a
           out == Field(obj.results.doc, "rows")
       IN /\ out.t = "table"
          /\ Len(out.a) = Len(rows)
          /\ \A i \in 1..Len(rows) : \A j \in 1..Len(rows[i].a) :
               out.a[i].a[j] =
                 C17_Expected(Field(columns[j].o, "type").s, rows[i].a[j])

\* a Timestamp cell was converted to a time and handed out
C17_Witness ==
  /\ obj.rawResults = CellDoc("Timestamp", JStr("2024-01-02T03:04:05Z"))
  /\ \E c \in Callers :
       /\ callers[c].pc = "done"
       /\ callers[c].method = "ToTable"
       /\ callers[c].ret.val =
            JTable(<<JArr(<<JTime("2024-01-02T03:04:05Z")>>)>>)

\* C18: GetQueryResultSet calls for at most floor(N/1000) + 1 pages of a
\* result set of N rows served by offset and limit, N a multiple of 1000
\* included.
C18_AtMostPagesOfResultSet ==
  op.name = "GetQueryResultSet" =>
    Len(rs.offsets) <= be.N \div PageLimit + 1

\* C19: every attempt of a CreateQuery request sends the complete JSON
\* payload of the first attempt, whatever a failed attempt had read of the
\* body.
C19_EveryAttemptSendsWholeBody ==
  op.name = "CreateQuery" =>
    \A k \in 1..Len(dr.sent) : dr.sent[k] = ApiBody("CreateQuery", op)

\* C20: the conversion of a raw document whose columns and rows are
\* arrays does not fail, and the converted document has the raw rows in
\* order, each converted row as long as its raw row, cell j being the
\* transform of column j applied to raw cell j, whether the row is longer
\* or shorter than the columns.
C20_ShapePreserved ==
  /\ \A c \in Callers : ~callers[c].ret.panic
  /\ obj.results.id # 0 =>
       LET columns == Field(obj.rawResults, "columns").a
           rows == Field(obj.rawResults, "rows").a
           out == Field(obj.results.doc, "rows").a
       IN /\ Len(out) = Len(rows)
          /\ \A i \in 1..Len(rows) :
               /\ Len(out[i].a) = Len(rows[i].a)
               /\ \A j \in 1..Len(rows[i].a) :
                    j <= Len(columns) =>
                      out[i].a[j] =
                        ApplyConverter(
                          getConverter(Field(columns[j].o, "type").s),
                          rows[i].a[j])
====
